---- MODULE Spec2Model ----
(***************************************************************************)
(* A state-machine model of the TCP transport of bevy_ecs_net:             *)
(*   component.rs  NetworkNode (channels, cancellation flag, send)         *)
(*   tcp.rs        TcpServerNode (accept loop, recv_loop), TcpClientNode   *)
(*                 (connect + send_loop) and the three PostUpdate systems  *)
(*                 manage_tcp_client, manage_tcp_server,                   *)
(*                 handle_new_connection.                                  *)
(* The host (the tick-driven systems and the calls it makes on nodes) and  *)
(* every background task are processes; each await point of a task is a    *)
(* position of that task.                                                  *)
(***************************************************************************)
EXTENDS Integers, Sequences, FiniteSets, TLC

\* ---------------------------------------------------------------- bounds
\* Remote peers that may connect to the listener.
MaxConns == 2
\* Bytes the remote peers write, over all their connections and writes.
MaxPeerBytes == 3
\* The buffer size handed to recv_loop (65_507 in the source, scaled down).
MaxPacketSize == 2
\* Calls of NetworkNode::send the host makes on one node.
MaxSends == 3
\* Length of one payload passed to NetworkNode::send.
MaxSendLen == 2

\* ------------------------------------------------------ program constants
\* NetworkNode::new: max_packet_size.
DefaultMaxPacketSize == 65535

\* ------------------------------------------------------------ identities
\* Entity ids. The server and the client components exist before the first
\* tick; commands.spawn hands out the ids after them.
ServerEntity == 1
ClientEntity == 2
FirstSpawned == 3

Conns == 1..MaxConns

None == "none"
\* Socket addresses are pairs; NoAddr is the None of an Option<SocketAddr>.
NoAddr == <<"none", 0>>
\* The address the listener is bound to; local_addr() of every accepted stream.
ServerAddr == <<"server", 0>>
\* The remote address of accepted stream c.
PeerAddr(c) == <<"peer", c>>
\* TcpClientNode.socket, the resolved target of the client.
TargetAddr == <<"target", 0>>

\* What stream.read returned last in a recv_loop.
NoRead == [kind |-> "none"]
ReadOk(n) == [kind |-> "Ok", n |-> n]
ReadErr == [kind |-> "Err"]

VARIABLES
    \* host side
    node,            \* entity -> NetworkNode, for the entities that carry one
    server_children, \* children of the server entity, in push order
    node_events,     \* every NetworkEvent written so far, in order
    next_entity,     \* next id commands.spawn hands out
    panicked,        \* the host has hit an expect() and is gone
    \* server side
    listener,        \* TcpServerNode.listener
    backlog,         \* connections the OS has queued on the listener
    accept_loop,     \* position of the accept task
    new_connections, \* TcpServerNode.new_connections, accepted streams
    conn,            \* connection -> where the connection is in its life
    sock,            \* connection -> bytes written by the peer, not yet read
    peer_closed,     \* connection -> the peer has closed its side
    recv_task,       \* connection -> the recv_loop task spawned for it
    written,         \* history: connection -> number of bytes the peer wrote
    reads,           \* history: connection -> results of the positive reads
    \* client side
    send_task,       \* the connect-then-send task of the client
    wire,            \* bytes the client socket has carried to its peer
    sent_log,        \* history: entity -> payloads enqueued by send()
    connect_attempts, \* history: number of TcpStream::connect calls
    queued_at_connect, \* history: packets queued when connect returned Ok
    server_log       \* history: accepts and adoption runs, where recorded

hostVars   == <<node, server_children, node_events, next_entity, panicked>>
serverVars == <<listener, backlog, accept_loop, new_connections, conn, sock, peer_closed,
                recv_task, written, reads>>
clientVars == <<send_task, wire, sent_log, connect_attempts, queued_at_connect>>
vars == <<hostVars, serverVars, clientVars, server_log>>

\* ---------------------------------------------------------------- helpers
Min(a, b) == IF a < b THEN a ELSE b

RECURSIVE Flatten(_)
\* Concatenation of a sequence of byte sequences.
Flatten(ss) == IF ss = <<>> THEN <<>> ELSE Head(ss) \o Flatten(Tail(ss))

\* The first n elements of s / s without them.
Take(s, n) == SubSeq(s, 1, n)
Drop(s, n) == SubSeq(s, n + 1, Len(s))

\* The k-th byte a peer writes on connection c: all bytes of one connection
\* differ, and differ from every other connection's.
PeerByte(c, k) == 10 * c + k
PeerBytes(c, from, to) == [i \in 1..(to - from + 1) |-> PeerByte(c, from + i - 1)]

\* -------------------------------------------------------------- component.rs
\* NetworkNode::new. An AsyncChannel is its FIFO content; send_closed is the
\* closed state of the send channel.
NewNode(protocol, local_addr, peer_addr) ==
    [ recv |-> <<>>, send |-> <<>>, error |-> <<>>, send_closed |-> FALSE,
      cancel_flag |-> FALSE, running |-> FALSE,
      local_addr |-> local_addr, peer_addr |-> peer_addr,
      max_packet_size |-> DefaultMaxPacketSize, auto_start |-> TRUE,
      protocol |-> protocol ]

\* The state before the first tick, but for the listener.
InitWorld ==
    /\ node = <<>>
    /\ server_children = <<>>
    /\ node_events = <<>>
    /\ next_entity = FirstSpawned
    /\ panicked = FALSE
    /\ backlog = <<>>
    /\ accept_loop = "none"
    /\ new_connections = <<>>
    /\ conn = [c \in Conns |-> "idle"]
    /\ sock = [c \in Conns |-> <<>>]
    /\ peer_closed = [c \in Conns |-> FALSE]
    /\ recv_task = [c \in Conns |-> [pc |-> "none"]]
    /\ written = [c \in Conns |-> 0]
    /\ reads = [c \in Conns |-> <<>>]
    /\ send_task = [pc |-> "none"]
    /\ wire = <<>>
    /\ sent_log = <<>>
    /\ connect_attempts = 0
    /\ queued_at_connect = 0
    /\ server_log = <<>>

\* TcpServerNode::new binds the listener (or panics): the server component
\* a program builds always holds Some(listener).
Init ==
    /\ listener = "bound"
    /\ InitWorld

\* Mutant of NodeStart: the flag is left as it is.
NodeStartKeepsFlag(e) ==
    /\ ~panicked
    /\ e \in DOMAIN node
    /\ node' = [node EXCEPT ![e].running = TRUE]
    /\ UNCHANGED <<server_children, node_events, next_entity, panicked>>
    /\ UNCHANGED <<serverVars, clientVars>>
    /\ UNCHANGED server_log

\* NetworkNode::start
NodeStart(e) ==
    /\ ~panicked
    /\ e \in DOMAIN node
    /\ node' = [node EXCEPT ![e].cancel_flag = FALSE, ![e].running = TRUE]
    /\ UNCHANGED <<server_children, node_events, next_entity, panicked>>
    /\ UNCHANGED <<serverVars, clientVars>>
    /\ UNCHANGED server_log

\* NetworkNode::stop
NodeStop(e) ==
    /\ ~panicked
    /\ e \in DOMAIN node
    /\ node' = [node EXCEPT ![e].cancel_flag = TRUE, ![e].running = FALSE]
    /\ UNCHANGED <<server_children, node_events, next_entity, panicked>>
    /\ UNCHANGED <<serverVars, clientVars>>
    /\ UNCHANGED server_log

\* The k-th byte the host passes to send() on node e: all differ.
SendByte(e, k) == 100 * e + k
SentLog(e) == IF e \in DOMAIN sent_log THEN sent_log[e] ELSE <<>>
SentBytes(e) == Len(Flatten(SentLog(e)))
SendPayload(e, len) == [i \in 1..len |-> SendByte(e, SentBytes(e) + i)]

\* The send() calls the host has made, over all nodes.
RECURSIVE TotalSends(_)
TotalSends(es) ==
    IF es = {} THEN 0
    ELSE LET e == CHOOSE x \in es : TRUE IN Len(sent_log[e]) + TotalSends(es \ {e})

\* AsyncChannel, the sender's try_send: refused once the channel is closed,
\* else the message joins the queue (the channel has no capacity limit).
ChannelTrySend(queue, closed, message) ==
    IF closed THEN [ok |-> FALSE, queue |-> queue]
    ELSE [ok |-> TRUE, queue |-> Append(queue, message)]

\* AsyncChannel, the receiver's recv().await once it returns: the closed
\* signal on a closed channel, else the oldest message.
ChannelRecv(queue, closed) ==
    IF closed THEN [ok |-> FALSE, queue |-> queue, message |-> None]
    ELSE [ok |-> TRUE, queue |-> Tail(queue), message |-> Head(queue)]

\* Mutant of NodeSend: the closed signal of try_send is dropped, the call
\* returns without a panic.
NodeSendIgnoresClosed(e, len) ==
    /\ ~panicked
    /\ e \in DOMAIN node
    /\ TotalSends(DOMAIN sent_log) < MaxSends
    /\ LET bytes == SendPayload(e, len)
           sent  == ChannelTrySend(node[e].send, node[e].send_closed,
                                   [socket |-> node[e].peer_addr, bytes |-> bytes])
       IN  /\ node' = [node EXCEPT ![e].send = sent.queue]
           /\ sent_log' = (e :> Append(SentLog(e), bytes)) @@ sent_log
           /\ UNCHANGED panicked
    /\ UNCHANGED <<server_children, node_events, next_entity>>
    /\ UNCHANGED <<send_task, wire, connect_attempts, queued_at_connect>>
    /\ UNCHANGED serverVars
    /\ UNCHANGED server_log

\* NetworkNode::send with a payload of len bytes: try_send, then expect().
NodeSend(e, len) ==
    /\ ~panicked
    /\ e \in DOMAIN node
    /\ TotalSends(DOMAIN sent_log) < MaxSends
    /\ LET bytes == SendPayload(e, len)
           sent  == ChannelTrySend(node[e].send, node[e].send_closed,
                                   [socket |-> node[e].peer_addr, bytes |-> bytes])
       IN  IF sent.ok
           THEN /\ node' = [node EXCEPT ![e].send = sent.queue]
                /\ sent_log' = (e :> Append(SentLog(e), bytes)) @@ sent_log
                /\ UNCHANGED panicked
           ELSE /\ panicked' = TRUE
                /\ UNCHANGED <<node, sent_log>>
    /\ UNCHANGED <<server_children, node_events, next_entity>>
    /\ UNCHANGED <<send_task, wire, connect_attempts, queued_at_connect>>
    /\ UNCHANGED serverVars
    /\ UNCHANGED server_log

\* The host closes the send channel of a node it still holds.
CloseSendChannel(e) ==
    /\ ~panicked
    /\ e \in DOMAIN node
    /\ ~node[e].send_closed
    /\ node' = [node EXCEPT ![e].send_closed = TRUE]
    /\ UNCHANGED <<server_children, node_events, next_entity, panicked>>
    /\ UNCHANGED <<serverVars, clientVars>>
    /\ UNCHANGED server_log

\* ------------------------------------------------------------ the peers
\* A remote peer connects: the OS queues the connection on the listener.
\* Connections are numbered in the order the peers connect.
PeerConnect(c) ==
    /\ ~panicked
    /\ listener = "bound"
    /\ conn[c] = "idle"
    /\ \A d \in Conns : d < c => conn[d] # "idle"
    /\ conn' = [conn EXCEPT ![c] = "backlog"]
    /\ backlog' = Append(backlog, c)
    /\ UNCHANGED <<listener, accept_loop, new_connections, sock, peer_closed,
                   recv_task, written, reads>>
    /\ UNCHANGED <<hostVars, clientVars>>
    /\ UNCHANGED server_log

\* The bytes all peers have written so far.
RECURSIVE TotalWritten(_)
TotalWritten(cs) ==
    IF cs = {} THEN 0
    ELSE LET c == CHOOSE x \in cs : TRUE IN written[c] + TotalWritten(cs \ {c})

\* A connected peer writes len bytes with one write. Nothing reads a stream
\* before its recv_loop runs, so the writes a peer makes earlier are taken
\* as made once the stream is adopted.
PeerWrite(c, len) ==
    /\ ~panicked
    /\ conn[c] = "adopted"
    /\ ~peer_closed[c]
    /\ TotalWritten(Conns) + len <= MaxPeerBytes
    /\ sock' = [sock EXCEPT ![c] = @ \o PeerBytes(c, written[c] + 1, written[c] + len)]
    /\ written' = [written EXCEPT ![c] = @ + len]
    /\ UNCHANGED <<listener, backlog, accept_loop, new_connections, conn,
                   peer_closed, recv_task, reads>>
    /\ UNCHANGED <<hostVars, clientVars>>
    /\ UNCHANGED server_log

\* A connected peer closes its side of the connection (for a stream not
\* yet adopted, see PeerWrite).
PeerClose(c) ==
    /\ ~panicked
    /\ conn[c] = "adopted"
    /\ ~peer_closed[c]
    /\ peer_closed' = [peer_closed EXCEPT ![c] = TRUE]
    /\ UNCHANGED <<listener, backlog, accept_loop, new_connections, conn, sock,
                   recv_task, written, reads>>
    /\ UNCHANGED <<hostVars, clientVars>>
    /\ UNCHANGED server_log

\* ------------------------------------------------------- tcp.rs, the server
\* Mutant of TcpServerStart: the accept task is spawned in both branches.
TcpServerStartSpawnsAlways(l, n) ==
    IF l = None
    THEN [ node |-> [n EXCEPT !.error = Append(@, [kind |-> "Error", msg |-> "server not exist"])],
           accept_loop |-> "running" ]
    ELSE [ node |-> n, accept_loop |-> "running" ]

\* TcpServerNode::start: the effect on (error channel of the node, accept task).
TcpServerStart(l, n) ==
    IF l = None
    THEN [ node |-> [n EXCEPT !.error = Append(@, [kind |-> "Error", msg |-> "server not exist"])],
           accept_loop |-> "none" ]
    ELSE [ node |-> n, accept_loop |-> "running" ]

\* manage_tcp_server, for the one TcpServerNode that was added.
ManageTcpServer ==
    /\ ~panicked
    /\ ServerEntity \notin DOMAIN node
    /\ IF listener = None      \* tcp_server.listener.clone().unwrap() panics
       THEN /\ panicked' = TRUE
            /\ UNCHANGED <<node, accept_loop>>
       ELSE /\ LET started == TcpServerStart(listener, NewNode("tcp", ServerAddr, NoAddr))
               IN  /\ node' = node @@ (ServerEntity :> started.node)
                   /\ accept_loop' = started.accept_loop
            /\ UNCHANGED panicked
    /\ UNCHANGED <<server_children, node_events, next_entity>>
    /\ UNCHANGED <<listener, backlog, new_connections, conn, sock, peer_closed,
                   recv_task, written, reads>>
    /\ UNCHANGED clientVars
    /\ UNCHANGED server_log

\* TcpServerNode::start called on a fresh node of the server entity by a
\* caller that does not unwrap the listener first.
TcpServerStartCall ==
    /\ ~panicked
    /\ ServerEntity \notin DOMAIN node
    /\ LET started == TcpServerStart(listener, NewNode("tcp", NoAddr, NoAddr))
       IN  /\ node' = node @@ (ServerEntity :> started.node)
           /\ accept_loop' = started.accept_loop
    /\ UNCHANGED <<server_children, node_events, next_entity, panicked>>
    /\ UNCHANGED <<listener, backlog, new_connections, conn, sock, peer_closed,
                   recv_task, written, reads>>
    /\ UNCHANGED clientVars
    /\ UNCHANGED server_log

\* Mutant of AcceptOk: the accept task accepts only while the server node's
\* cancel_flag is clear.
AcceptOkChecksFlag ==
    /\ ~panicked
    /\ accept_loop = "running"
    /\ ~node[ServerEntity].cancel_flag
    /\ backlog # <<>>
    /\ new_connections' = Append(new_connections, Head(backlog))
    /\ conn' = [conn EXCEPT ![Head(backlog)] = "queued"]
    /\ backlog' = Tail(backlog)
    /\ UNCHANGED <<listener, accept_loop, sock, peer_closed, recv_task, written, reads>>
    /\ UNCHANGED <<hostVars, clientVars>>

\* The accept task: incoming.next() yields Some(Ok(stream)), which is sent
\* into new_connections.
AcceptOk ==
    /\ ~panicked
    /\ accept_loop = "running"
    /\ backlog # <<>>
    /\ new_connections' = Append(new_connections, Head(backlog))
    /\ conn' = [conn EXCEPT ![Head(backlog)] = "queued"]
    /\ backlog' = Tail(backlog)
    /\ UNCHANGED <<listener, accept_loop, sock, peer_closed, recv_task, written, reads>>
    /\ UNCHANGED <<hostVars, clientVars>>

\* The accept task: incoming.next() yields Some(Err(_)); the inner while
\* ends and the outer loop starts it again.
AcceptErr ==
    /\ ~panicked
    /\ accept_loop = "running"
    /\ backlog # <<>>
    /\ conn' = [conn EXCEPT ![Head(backlog)] = "refused"]
    /\ backlog' = Tail(backlog)
    /\ UNCHANGED <<listener, accept_loop, new_connections, sock, peer_closed,
                   recv_task, written, reads>>
    /\ UNCHANGED <<hostVars, clientVars>>
    /\ UNCHANGED server_log

\* Mutant of SpawnedIds: every spawn of one run gets the same id.
SpawnedIdsReused(first, k) == [i \in 1..k |-> first]

\* The ids commands.spawn gives to the k nodes spawned in one run.
SpawnedIds(first, k) == [i \in 1..k |-> first + i - 1]

\* What handle_new_connection hands to the recv_loop it spawns for a stream,
\* given the server's entity and the child spawned for the stream: the node
\* whose recv channel, error channel and cancel_flag the task holds.
RecvLoopArgs(entity, tcp_client) ==
    [ message_sender |-> entity, error_sender |-> entity, cancel_flag |-> entity,
      max_packet_size |-> MaxPacketSize ]

\* let mut buffer = vec![0; max_packet_size]
NewBuffer(max_packet_size) == [i \in 1..max_packet_size |-> 0]

\* Mutant of DrainedByRun: one run adopts one stream.
DrainedOnePerRun(queue) == Take(queue, 1)

\* handle_new_connection: what the while let over try_recv() takes from the
\* queue in one run, which is all it holds.
DrainedByRun(queue) == queue

\* handle_new_connection: the while let drains new_connections.
HandleNewConnection ==
    /\ ~panicked
    /\ ServerEntity \in DOMAIN node
    /\ new_connections # <<>>
    /\ LET q   == DrainedByRun(new_connections)
           ids == SpawnedIds(next_entity, Len(q))
           At(c) == CHOOSE i \in 1..Len(q) : q[i] = c
       IN  /\ node' = node @@ [e \in {ids[i] : i \in 1..Len(q)} |->
                                 NewNode("tcp", NoAddr, PeerAddr(q[e - next_entity + 1]))]
           /\ server_children' = server_children \o ids
           /\ recv_task' = [c \in Conns |->
                 IF \E i \in 1..Len(q) : q[i] = c
                 THEN LET args == RecvLoopArgs(ServerEntity, ids[At(c)])
                      IN  [ pc |-> "check", stream |-> c, read_result |-> NoRead,
                            message_sender |-> args.message_sender,
                            error_sender |-> args.error_sender,
                            cancel_flag |-> args.cancel_flag,
                            max_packet_size |-> args.max_packet_size,
                            buffer |-> NewBuffer(args.max_packet_size) ]
                 ELSE recv_task[c]]
           /\ conn' = [c \in Conns |->
                 IF \E i \in 1..Len(q) : q[i] = c THEN "adopted" ELSE conn[c]]
           /\ node_events' = node_events \o [i \in 1..Len(q) |-> [kind |-> "Connected", entity |-> ids[i]]]
           /\ next_entity' = next_entity + Len(q)
           /\ new_connections' = Drop(new_connections, Len(q))
    /\ UNCHANGED <<panicked, listener, backlog, accept_loop, sock, peer_closed, written, reads>>
    /\ UNCHANGED clientVars

\* Mutant of RecvCheck: the flag is not consulted.
RecvCheckIgnoresFlag(c) ==
    /\ ~panicked
    /\ recv_task[c].pc = "check"
    /\ recv_task' = [recv_task EXCEPT ![c].pc = "read"]
    /\ UNCHANGED <<listener, backlog, accept_loop, new_connections, conn, sock,
                   peer_closed, written, reads>>
    /\ UNCHANGED <<hostVars, clientVars>>
    /\ UNCHANGED server_log

\* recv_loop, the top of an iteration: the cancellation check.
RecvCheck(c) ==
    /\ ~panicked
    /\ recv_task[c].pc = "check"
    /\ recv_task' = [recv_task EXCEPT ![c].pc =
          IF node[recv_task[c].cancel_flag].cancel_flag THEN "done" ELSE "read"]
    /\ UNCHANGED <<listener, backlog, accept_loop, new_connections, conn, sock,
                   peer_closed, written, reads>>
    /\ UNCHANGED <<hostVars, clientVars>>
    /\ UNCHANGED server_log

\* The buffer after a read of the bytes got into its front.
BufferAfterRead(buffer, got) ==
    [i \in 1..Len(buffer) |-> IF i <= Len(got) THEN got[i] ELSE buffer[i]]

\* Mutant of RecvPacket: the whole buffer is copied, not its first n bytes.
RecvPacketWholeBuffer(c, buffer, n) ==
    [ socket |-> ServerAddr, bytes |-> buffer, conn |-> c ]

\* The packet recv_loop sends after a read of n bytes into buffer; conn is
\* history, the connection the packet was read from.
RecvPacket(c, buffer, n) ==
    [ socket |-> ServerAddr, bytes |-> Take(buffer, n), conn |-> c ]

\* recv_loop: stream.read returns Ok(n), n > 0.
RecvReadOk(c, n) ==
    /\ ~panicked
    /\ recv_task[c].pc = "read"
    /\ n \in 1..Min(Len(sock[c]), recv_task[c].max_packet_size)
    /\ LET buf == BufferAfterRead(recv_task[c].buffer, Take(sock[c], n))
       IN  /\ recv_task' = [recv_task EXCEPT ![c].buffer = buf, ![c].read_result = ReadOk(n),
                                              ![c].pc = "check"]
           /\ node' = [node EXCEPT ![recv_task[c].message_sender].recv =
                          Append(@, RecvPacket(c, buf, n))]
    /\ reads' = [reads EXCEPT ![c] = Append(@, Take(sock[c], n))]
    /\ sock' = [sock EXCEPT ![c] = Drop(@, n)]
    /\ UNCHANGED <<server_children, node_events, next_entity, panicked>>
    /\ UNCHANGED <<listener, backlog, accept_loop, new_connections, conn,
                   peer_closed, written>>
    /\ UNCHANGED clientVars
    /\ UNCHANGED server_log

\* Mutant of RecvReadZero: the loop goes on to its next iteration.
RecvReadZeroContinues(c) ==
    /\ ~panicked
    /\ recv_task[c].pc = "read"
    /\ sock[c] = <<>>
    /\ peer_closed[c]
    /\ recv_task' = [recv_task EXCEPT ![c].read_result = ReadOk(0), ![c].pc = "check"]
    /\ UNCHANGED <<listener, backlog, accept_loop, new_connections, conn, sock,
                   peer_closed, written, reads>>
    /\ UNCHANGED <<hostVars, clientVars>>
    /\ UNCHANGED server_log

\* recv_loop: stream.read returns Ok(0), the peer has closed.
RecvReadZero(c) ==
    /\ ~panicked
    /\ recv_task[c].pc = "read"
    /\ sock[c] = <<>>
    /\ peer_closed[c]
    /\ recv_task' = [recv_task EXCEPT ![c].read_result = ReadOk(0), ![c].pc = "done"]
    /\ UNCHANGED <<listener, backlog, accept_loop, new_connections, conn, sock,
                   peer_closed, written, reads>>
    /\ UNCHANGED <<hostVars, clientVars>>
    /\ UNCHANGED server_log

\* Mutant of RecvReadErr: the error is reported and the loop goes on.
RecvReadErrContinues(c) ==
    /\ ~panicked
    /\ recv_task[c].pc = "read"
    /\ node' = [node EXCEPT ![recv_task[c].error_sender].error =
                   Append(@, [kind |-> "Error", msg |-> "read", conn |-> c])]
    /\ recv_task' = [recv_task EXCEPT ![c].read_result = ReadErr, ![c].pc = "check"]
    /\ UNCHANGED <<server_children, node_events, next_entity, panicked>>
    /\ UNCHANGED <<listener, backlog, accept_loop, new_connections, conn, sock,
                   peer_closed, written, reads>>
    /\ UNCHANGED clientVars
    /\ UNCHANGED server_log

\* recv_loop: stream.read returns Err(e).
RecvReadErr(c) ==
    /\ ~panicked
    /\ recv_task[c].pc = "read"
    /\ node' = [node EXCEPT ![recv_task[c].error_sender].error =
                   Append(@, [kind |-> "Error", msg |-> "read", conn |-> c])]
    /\ recv_task' = [recv_task EXCEPT ![c].read_result = ReadErr, ![c].pc = "done"]
    /\ UNCHANGED <<server_children, node_events, next_entity, panicked>>
    /\ UNCHANGED <<listener, backlog, accept_loop, new_connections, conn, sock,
                   peer_closed, written, reads>>
    /\ UNCHANGED clientVars
    /\ UNCHANGED server_log

ServerNext ==
    \/ ManageTcpServer
    \/ HandleNewConnection /\ UNCHANGED server_log
    \/ AcceptOk /\ UNCHANGED server_log
    \/ AcceptErr
    \/ \E e \in DOMAIN node \cap {ServerEntity} : NodeStart(e) \/ NodeStop(e)
    \/ \E c \in Conns :
          \/ PeerConnect(c)
          \/ \E len \in 1..MaxPeerBytes : PeerWrite(c, len)
          \/ PeerClose(c)
          \/ RecvCheck(c)
          \/ \E n \in 1..MaxPacketSize : RecvReadOk(c, n)
          \/ RecvReadZero(c)
          \/ RecvReadErr(c)

ServerSpec == Init /\ [][ServerNext]_vars

\* An accept and an adoption run with their history: which connection was
\* accepted, how many streams one run adopted, and whether the server
\* node's cancel_flag was set at the time.
AcceptOkLogged ==
    /\ AcceptOk
    /\ server_log' = Append(server_log,
          [ op |-> "accept", n |-> Head(backlog),
            stopped |-> node[ServerEntity].cancel_flag ])

HandleNewConnectionLogged ==
    /\ HandleNewConnection
    /\ server_log' = Append(server_log,
          [ op |-> "adopt", n |-> Len(DrainedByRun(new_connections)),
            stopped |-> node[ServerEntity].cancel_flag ])

\* TcpServerNode::start as a function of the listener it finds: the server
\* component holds Some(listener) or None, and start is reached through
\* manage_tcp_server or called directly; connections are accepted and
\* adopted, no data is moved on them.
StartInit ==
    /\ listener \in {"bound", None}
    /\ InitWorld

StartNext ==
    \/ ManageTcpServer
    \/ TcpServerStartCall
    \/ HandleNewConnectionLogged
    \/ AcceptOkLogged
    \/ AcceptErr
    \/ \E e \in DOMAIN node \cap {ServerEntity} : NodeStart(e) \/ NodeStop(e)
    \/ \E c \in Conns : PeerConnect(c) \/ RecvCheck(c)

StartSpec == StartInit /\ [][StartNext]_vars

\* ------------------------------------------------------- tcp.rs, the client
\* TcpClientNode::start: the task it spawns, holding the node's send channel
\* receiver, error channel sender and cancel_flag.
TcpClientStart(e) ==
    [ pc |-> "connect", stream |-> None, message |-> None, recv_result |-> None,
      message_receiver |-> e, error_sender |-> e, cancel_flag |-> e ]

\* manage_tcp_client, for the one TcpClientNode that was added.
ManageTcpClient ==
    /\ ~panicked
    /\ ClientEntity \notin DOMAIN node
    /\ node' = node @@ (ClientEntity :> NewNode("tcp", NoAddr, TargetAddr))
    /\ send_task' = TcpClientStart(ClientEntity)
    /\ UNCHANGED <<server_children, node_events, next_entity, panicked>>
    /\ UNCHANGED <<wire, sent_log, connect_attempts, queued_at_connect>>
    /\ UNCHANGED serverVars
    /\ UNCHANGED server_log

\* The task of start: TcpStream::connect returns Ok(stream); send_loop begins.
ClientConnectOk ==
    /\ ~panicked
    /\ send_task.pc = "connect"
    /\ send_task' = [send_task EXCEPT !.pc = "check", !.stream = "open"]
    /\ connect_attempts' = connect_attempts + 1
    /\ queued_at_connect' = Len(node[send_task.message_receiver].send)
    /\ UNCHANGED <<wire, sent_log>>
    /\ UNCHANGED <<hostVars, serverVars>>
    /\ UNCHANGED server_log

\* Mutant of ClientConnectErr: the error is reported and connect is tried
\* again.
ClientConnectErrRetries ==
    /\ ~panicked
    /\ send_task.pc = "connect"
    /\ node' = [node EXCEPT ![send_task.error_sender].error =
                   Append(@, [kind |-> "Connection"])]
    /\ send_task' = [send_task EXCEPT !.pc = "connect"]
    /\ connect_attempts' = connect_attempts + 1
    /\ UNCHANGED <<server_children, node_events, next_entity, panicked>>
    /\ UNCHANGED <<wire, sent_log, queued_at_connect>>
    /\ UNCHANGED serverVars
    /\ UNCHANGED server_log

\* The task of start: TcpStream::connect returns Err(e); the task ends.
ClientConnectErr ==
    /\ ~panicked
    /\ send_task.pc = "connect"
    /\ node' = [node EXCEPT ![send_task.error_sender].error =
                   Append(@, [kind |-> "Connection"])]
    /\ send_task' = [send_task EXCEPT !.pc = "done"]
    /\ connect_attempts' = connect_attempts + 1
    /\ UNCHANGED <<server_children, node_events, next_entity, panicked>>
    /\ UNCHANGED <<wire, sent_log, queued_at_connect>>
    /\ UNCHANGED serverVars
    /\ UNCHANGED server_log

\* send_loop, the top of the outer loop: the cancellation check.
SendLoopCheck ==
    /\ ~panicked
    /\ send_task.pc = "check"
    /\ send_task' = [send_task EXCEPT !.pc =
          IF node[send_task.cancel_flag].cancel_flag THEN "done" ELSE "recv"]
    /\ UNCHANGED <<wire, sent_log, connect_attempts, queued_at_connect>>
    /\ UNCHANGED <<hostVars, serverVars>>
    /\ UNCHANGED server_log

\* Mutant of SendLoopRecv: the newest queued message is taken, not the oldest.
SendLoopRecvNewestFirst ==
    /\ ~panicked
    /\ send_task.pc = "recv"
    /\ LET n == node[send_task.message_receiver]
       IN  /\ n.send_closed \/ n.send # <<>>
           /\ IF ~n.send_closed
              THEN /\ node' = [node EXCEPT ![send_task.message_receiver].send =
                                  SubSeq(n.send, 1, Len(n.send) - 1)]
                   /\ send_task' = [send_task EXCEPT !.pc = "write",
                                                     !.message = n.send[Len(n.send)],
                                                     !.recv_result = "Ok"]
              ELSE /\ send_task' = [send_task EXCEPT !.pc = "check",
                                                     !.recv_result = "Closed"]
                   /\ UNCHANGED node
    /\ UNCHANGED <<server_children, node_events, next_entity, panicked>>
    /\ UNCHANGED <<wire, sent_log, connect_attempts, queued_at_connect>>
    /\ UNCHANGED serverVars
    /\ UNCHANGED server_log

\* send_loop, the while let: message_receiver.recv().await returns. It
\* returns once a message is queued or the channel is closed; Ok(message)
\* goes on to write_all, Err(_) leaves the while for the outer loop.
\* recv_result keeps what it returned last.
SendLoopRecv ==
    /\ ~panicked
    /\ send_task.pc = "recv"
    /\ LET n == node[send_task.message_receiver]
       IN  /\ n.send_closed \/ n.send # <<>>
           /\ LET got == ChannelRecv(n.send, n.send_closed)
              IN  IF got.ok
                  THEN /\ node' = [node EXCEPT ![send_task.message_receiver].send = got.queue]
                       /\ send_task' = [send_task EXCEPT !.pc = "write", !.message = got.message,
                                                     !.recv_result = "Ok"]
                  ELSE /\ send_task' = [send_task EXCEPT !.pc = "check",
                                                     !.recv_result = "Closed"]
                       /\ UNCHANGED node
    /\ UNCHANGED <<server_children, node_events, next_entity, panicked>>
    /\ UNCHANGED <<wire, sent_log, connect_attempts, queued_at_connect>>
    /\ UNCHANGED serverVars
    /\ UNCHANGED server_log

\* send_loop: client.write_all(&message.bytes) returns Ok(()).
SendLoopWriteOk ==
    /\ ~panicked
    /\ send_task.pc = "write"
    /\ wire' = wire \o send_task.message.bytes
    /\ send_task' = [send_task EXCEPT !.pc = "recv", !.message = None]
    /\ UNCHANGED <<sent_log, connect_attempts, queued_at_connect>>
    /\ UNCHANGED <<hostVars, serverVars>>
    /\ UNCHANGED server_log

\* Mutant of SendLoopWriteErr: the failed write ends the send loop.
SendLoopWriteErrEndsLoop(k) ==
    /\ ~panicked
    /\ send_task.pc = "write"
    /\ k < Len(send_task.message.bytes)
    /\ wire' = wire \o Take(send_task.message.bytes, k)
    /\ node' = [node EXCEPT ![send_task.error_sender].error =
                   Append(@, [kind |-> "SendError"])]
    /\ send_task' = [send_task EXCEPT !.pc = "done", !.message = None]
    /\ UNCHANGED <<server_children, node_events, next_entity, panicked>>
    /\ UNCHANGED <<sent_log, connect_attempts, queued_at_connect>>
    /\ UNCHANGED serverVars
    /\ UNCHANGED server_log

\* send_loop: client.write_all returns Err(e) after k of the bytes went out;
\* a SendError is reported and the while let goes on.
SendLoopWriteErr(k) ==
    /\ ~panicked
    /\ send_task.pc = "write"
    /\ k < Len(send_task.message.bytes)
    /\ wire' = wire \o Take(send_task.message.bytes, k)
    /\ node' = [node EXCEPT ![send_task.error_sender].error =
                   Append(@, [kind |-> "SendError"])]
    /\ send_task' = [send_task EXCEPT !.pc = "recv", !.message = None]
    /\ UNCHANGED <<server_children, node_events, next_entity, panicked>>
    /\ UNCHANGED <<sent_log, connect_attempts, queued_at_connect>>
    /\ UNCHANGED serverVars
    /\ UNCHANGED server_log

\* The client's task, and the host's calls on the client's node.
ClientNext ==
    \/ ManageTcpClient
    \/ ClientConnectOk
    \/ ClientConnectErr
    \/ SendLoopCheck
    \/ SendLoopRecv
    \/ SendLoopWriteOk
    \/ \E k \in 0..(MaxSendLen - 1) : SendLoopWriteErr(k)
    \/ \E e \in DOMAIN node \cap {ClientEntity} :
          \/ NodeStart(e)
          \/ NodeStop(e)
          \/ \E len \in 1..MaxSendLen : NodeSend(e, len)
          \/ CloseSendChannel(e)

ClientSpec == Init /\ [][ClientNext]_vars

Next == ServerNext \/ ClientNext
Spec == Init /\ [][Next]_vars

\* ================================================================ claims
\* The recv channel a connection's recv_loop sends into.
RecvChannelOf(c) == node[recv_task[c].message_sender].recv
\* The error channel a connection's recv_loop sends into.
ErrorChannelOf(c) == node[recv_task[c].error_sender].error
\* The cancellation flag a connection's recv_loop loads.
CancelFlagOf(c) == node[recv_task[c].cancel_flag].cancel_flag
\* The connections whose recv_loop has been spawned.
Spawned == {c \in Conns : recv_task[c].pc # "none"}
\* The payloads of the packets of channel ch that were read from connection c.
PayloadsFrom(ch, c) ==
    LET FromC(p) == p.conn = c
        sel == SelectSeq(ch, FromC)
    IN  [i \in 1..Len(sel) |-> sel[i].bytes]
\* The node handle_new_connection spawned for connection c.
ChildOf(c) == CHOOSE e \in DOMAIN node : node[e].peer_addr = PeerAddr(c)

\* C1: for every connection whose recv_loop runs, the packets of that
\* connection in the receive channel the loop sends into are, in order,
\* exactly the results of its positive reads (one packet per read, holding
\* the bytes of that read), each 1..max_packet_size bytes long; together
\* with the bytes still unread they are the bytes the peer wrote. No other
\* node's receive channel holds a packet of that connection.
C1_OnePacketPerRead ==
    \A c \in Spawned :
        /\ PayloadsFrom(RecvChannelOf(c), c) = reads[c]
        /\ \A i \in 1..Len(reads[c]) :
              Len(reads[c][i]) \in 1..recv_task[c].max_packet_size
        /\ Flatten(PayloadsFrom(RecvChannelOf(c), c)) \o sock[c]
              = PeerBytes(c, 1, written[c])
        /\ \A e \in DOMAIN node :
              e # recv_task[c].message_sender => PayloadsFrom(node[e].recv, c) = <<>>

\* C1 witness: two recv_loops have delivered into the channel, one of them
\* two packets with the other's packet between them, and one packet holds
\* more than one byte; every byte written has been read.
C1_Witness ==
    \E c \in Spawned, d \in Spawned :
        /\ c # d
        /\ recv_task[c].message_sender = recv_task[d].message_sender
        /\ Len(reads[c]) = 2 /\ Len(reads[d]) = 1
        /\ sock[c] = <<>> /\ sock[d] = <<>> /\ written[c] = 2
        /\ LET ch == RecvChannelOf(c)
           IN  Len(ch) = 3 /\ ch[1].conn = c /\ ch[2].conn = d /\ ch[3].conn = c

\* C2 (as claimed): the recv_loop of an adopted connection delivers into the
\* receive channel of the child node spawned for it, which therefore holds
\* exactly the packets read from the connection.
C2_DeliveredToChild ==
    \A c \in Spawned :
        /\ PayloadsFrom(node[ChildOf(c)].recv, c) = reads[c]
        /\ \A e \in DOMAIN node \ {ChildOf(c)} : PayloadsFrom(node[e].recv, c) = <<>>

\* C3 (as claimed): while the cancellation flag of the client's node is set,
\* the send loop begins no write: a step taken with the flag set does not
\* take the loop from outside write_all into write_all.
C3_NoWriteBegunAfterStop ==
    [][ (ClientEntity \in DOMAIN node /\ send_task.pc # "none"
           /\ node[send_task.cancel_flag].cancel_flag /\ send_task.pc # "write")
        => send_task'.pc # "write" ]_vars

\* C4: a recv_loop that finds the cancellation flag it observes set begins
\* no read and exits at that check; packets of a connection enter the
\* receive channel only as the result of a read that was already begun; and
\* a loop that has exited stays exited and delivers nothing more.
C4_NoReadAfterStop ==
    [][ \A c \in Spawned :
          /\ (CancelFlagOf(c) /\ recv_task[c].pc = "check")
                => recv_task'[c].pc \in {"check", "done"}
          /\ (CancelFlagOf(c) /\ recv_task[c].pc = "check" /\ recv_task'[c] # recv_task[c])
                => recv_task'[c].pc = "done"
          /\ recv_task[c].pc # "read"
                => PayloadsFrom(RecvChannelOf(c), c)' = PayloadsFrom(RecvChannelOf(c), c)
          /\ recv_task[c].pc = "done" => recv_task'[c] = recv_task[c] ]_vars

\* C4 witness: a recv_loop has exited at a cancellation check (its last read
\* returned data, no read failed) with the flag set and bytes of its peer
\* still unread.
C4_Witness ==
    \E c \in Spawned :
        /\ recv_task[c].pc = "done"
        /\ recv_task[c].read_result.kind = "Ok" /\ recv_task[c].read_result.n > 0
        /\ CancelFlagOf(c)
        /\ sock[c] # <<>>

\* The connections handle_new_connection has adopted.
Adopted == {c \in Conns : conn[c] = "adopted"}

\* C5: the Connected events are as many as the adopted connections, carry
\* pairwise distinct identities, and every identity is a node spawned for
\* exactly one adopted connection (none is the server's or the client's own
\* entity) and is a child of the server entity; every adopted connection has
\* its event.
C5_OneConnectedPerAccepted ==
    /\ Len(node_events) = Cardinality(Adopted)
    /\ \A i \in 1..Len(node_events) :
          /\ node_events[i].kind = "Connected"
          /\ node_events[i].entity \in DOMAIN node
          /\ node_events[i].entity \notin {ServerEntity, ClientEntity}
          /\ \E j \in 1..Len(server_children) : server_children[j] = node_events[i].entity
          /\ \E c \in Adopted : node[node_events[i].entity].peer_addr = PeerAddr(c)
          /\ \A j \in 1..Len(node_events) :
                node_events[j].entity = node_events[i].entity => j = i
    /\ \A c \in Adopted :
          \E i \in 1..Len(node_events) : node[node_events[i].entity].peer_addr = PeerAddr(c)

\* C5 witness: two connections have been adopted and two events written.
C5_Witness ==
    /\ Cardinality(Adopted) = 2
    /\ Len(node_events) = 2
    /\ node_events[1].entity # node_events[2].entity


\* The payloads queued in the send channel of node e, oldest first.
QueuedPayloads(e) == [i \in 1..Len(node[e].send) |-> node[e].send[i].bytes]
\* The payload the send loop holds between recv and the end of write_all.
InFlight == IF send_task.pc = "write" THEN <<send_task.message.bytes>> ELSE <<>>
\* The errors of kind k on the error channel of node e.
ErrorsOfKind(e, k) == {i \in 1..Len(node[e].error) : node[e].error[i].kind = k}
\* The Connected events that carry entity e.
ConnectedEventsFor(e) == {i \in 1..Len(node_events) : node_events[i].entity = e}
\* A connect attempt of the client has returned without a stream.
ConnectFailed ==
    send_task.pc # "none" /\ connect_attempts >= 1 /\ send_task.stream = None

\* C6: once the client's connect has failed, the task is over after that one
\* attempt, the node's error channel holds exactly one error, a Connection
\* error, nothing was taken from the send channel or written to a socket,
\* and no Connected event carries the client's identity.
C6_ConnectFailureReportedOnce ==
    ConnectFailed =>
        /\ send_task.pc = "done"
        /\ connect_attempts = 1
        /\ node[ClientEntity].error = <<[kind |-> "Connection"]>>
        /\ wire = <<>>
        /\ QueuedPayloads(ClientEntity) = SentLog(ClientEntity)
        /\ ConnectedEventsFor(ClientEntity) = {}

\* C6 witness: the connect has failed, with two packets queued by send()
\* and the node stopped by the host.
C6_Witness ==
    /\ ConnectFailed
    /\ Len(SentLog(ClientEntity)) >= 2
    /\ node[ClientEntity].cancel_flag

\* C7: as long as no write has failed, the bytes on the client's wire,
\* followed by the payload being written and the payloads still queued, are
\* the payloads passed to send() in call order; nothing is on the wire
\* before the socket is connected, and when the connected send loop waits
\* on an empty queue the wire holds every payload, once, in call order.
C7_WireIsPayloadsInOrder ==
    (ClientEntity \in DOMAIN node /\ ErrorsOfKind(ClientEntity, "SendError") = {}) =>
        /\ wire \o Flatten(InFlight \o QueuedPayloads(ClientEntity))
              = Flatten(SentLog(ClientEntity))
        /\ send_task.stream = None => wire = <<>>
        /\ (send_task.pc = "recv" /\ node[ClientEntity].send = <<>>)
              => wire = Flatten(SentLog(ClientEntity))

\* C7 witness: two packets were queued when the socket connected, a third
\* was sent after, and all three are on the wire.
C7_Witness ==
    /\ ClientEntity \in DOMAIN node
    /\ ErrorsOfKind(ClientEntity, "SendError") = {}
    /\ queued_at_connect = 2
    /\ Len(SentLog(ClientEntity)) = 3
    /\ send_task.pc = "recv"
    /\ wire = Flatten(SentLog(ClientEntity))

\* C8 (as claimed): once the client's connect has succeeded, exactly one
\* Connected event carries the client's identity.
C8_ConnectedEventForClient ==
    (send_task.pc # "none" /\ send_task.stream = "open")
        => Cardinality(ConnectedEventsFor(ClientEntity)) = 1

\* The errors a connection's recv_loop has reported.
ReadErrorsOf(c) ==
    {i \in 1..Len(ErrorChannelOf(c)) :
        "conn" \in DOMAIN ErrorChannelOf(c)[i] /\ ErrorChannelOf(c)[i].conn = c}

\* C9: a recv_loop whose read returned zero bytes has exited and never
\* leaves that position (its last read stays the zero-byte read); the
\* packets it delivered are those of its positive reads, none for the
\* zero-byte read, and it has reported no error.
C9_ZeroReadEndsLoop ==
    \A c \in Spawned :
        (recv_task[c].read_result.kind = "Ok" /\ recv_task[c].read_result.n = 0) =>
            /\ recv_task[c].pc = "done"
            /\ PayloadsFrom(RecvChannelOf(c), c) = reads[c]
            /\ \A i \in 1..Len(reads[c]) : Len(reads[c][i]) >= 1
            /\ ReadErrorsOf(c) = {}

\* C9 witness: a recv_loop has ended on a zero-byte read after delivering a
\* packet.
C9_Witness ==
    \E c \in Spawned :
        /\ recv_task[c].read_result.kind = "Ok" /\ recv_task[c].read_result.n = 0
        /\ Len(reads[c]) >= 1

\* The host can call send() on node e (it has not panicked, and the calls
\* the model allows are not used up).
CanSend(e) ==
    ~panicked /\ e \in DOMAIN node /\ TotalSends(DOMAIN sent_log) < MaxSends

\* C10: send() can always be taken to its end at once; on a node whose send
\* channel is closed it panics and enqueues nothing, on a node whose send
\* channel is open it does not panic and appends exactly one packet, the
\* payload addressed to the node's peer_addr. Nothing else makes the host
\* panic or adds to a send channel.
C10_SendFailsOrEnqueues ==
    [][ /\ CanSend(ClientEntity) => ENABLED NodeSend(ClientEntity, 1)
        /\ \A len \in 1..MaxSendLen :
              NodeSend(ClientEntity, len) =>
                  IF node[ClientEntity].send_closed
                  THEN panicked' /\ node' = node /\ sent_log' = sent_log
                  ELSE /\ ~panicked'
                       /\ node' = [node EXCEPT ![ClientEntity].send =
                             Append(@, [socket |-> node[ClientEntity].peer_addr,
                                        bytes |-> SendPayload(ClientEntity, len)])]
        /\ panicked' # panicked =>
              node[ClientEntity].send_closed /\ node' = node /\ sent_log' = sent_log
        /\ \A e \in DOMAIN node :
              Len(node'[e].send) > Len(node[e].send) =>
                  /\ ~node[e].send_closed
                  /\ Len(node'[e].send) = Len(node[e].send) + 1
                  /\ node'[e].send[Len(node'[e].send)].socket = node[e].peer_addr
                  /\ sent_log'[e] = Append(SentLog(e), node'[e].send[Len(node'[e].send)].bytes)
     ]_vars

\* C10 witness: the host has panicked in send() on a node whose send channel
\* is closed, after an earlier send() on it went through.
C10_Witness ==
    /\ panicked
    /\ node[ClientEntity].send_closed
    /\ Len(SentLog(ClientEntity)) >= 1

\* Node n with its cancellation flag and running flag left out.
RestOfNode(n) == [f \in DOMAIN n \ {"cancel_flag", "running"} |-> n[f]]

\* C11: a node enters the world with the cancellation flag cleared and
\* running = FALSE; start() leaves the flag cleared and running = TRUE,
\* stop() leaves the flag set and running = FALSE, and neither touches the
\* channels' contents, the addresses or max_packet_size; so before and
\* after every step a running node has its flag cleared.
C11_StartStopToggleFlagsOnly ==
    [][ /\ \A e \in DOMAIN node' \ DOMAIN node :
              ~node'[e].cancel_flag /\ ~node'[e].running
        /\ \A e \in DOMAIN node :
              /\ NodeStart(e) =>
                    /\ ~node'[e].cancel_flag /\ node'[e].running
                    /\ RestOfNode(node'[e]) = RestOfNode(node[e])
              /\ NodeStop(e) =>
                    /\ node'[e].cancel_flag /\ ~node'[e].running
                    /\ RestOfNode(node'[e]) = RestOfNode(node[e])
              /\ node[e].running => ~node[e].cancel_flag
              /\ node'[e].running => ~node'[e].cancel_flag
      ]_vars

\* C11 witness: a node with queued packets and a reported error is running
\* with its flag cleared (start() was called on it).
C11_Witness ==
    /\ ClientEntity \in DOMAIN node
    /\ node[ClientEntity].running /\ ~node[ClientEntity].cancel_flag
    /\ Len(node[ClientEntity].send) >= 2
    /\ node[ClientEntity].error # <<>>

\* C12: when start has been called on a server whose listener is None, the
\* node's error channel holds exactly one error ("server not exist"), no
\* accept task exists, and no connection is queued on the listener, in
\* new_connections or adopted: no child, no event, no node but the server's.
C12_StartWithoutListener ==
    (listener = None /\ ServerEntity \in DOMAIN node) =>
        /\ node[ServerEntity].error = <<[kind |-> "Error", msg |-> "server not exist"]>>
        /\ accept_loop = "none"
        /\ backlog = <<>> /\ new_connections = <<>>
        /\ \A c \in Conns : conn[c] = "idle" /\ recv_task[c].pc = "none"
        /\ server_children = <<>> /\ node_events = <<>>
        /\ DOMAIN node = {ServerEntity}

\* C12 witness: start has run without a listener, and the host has since
\* called start() on the node.
C12_Witness ==
    /\ listener = None
    /\ ServerEntity \in DOMAIN node
    /\ node[ServerEntity].running

\* C13 (as claimed): every packet in a receive channel carries, as its
\* socket, the remote address of the connection it was read from, which is
\* the peer_addr of the node spawned for that connection.
C13_PacketTaggedWithPeerAddr ==
    \A e \in DOMAIN node :
        \A i \in 1..Len(node[e].recv) :
            /\ node[e].recv[i].socket = PeerAddr(node[e].recv[i].conn)
            /\ node[e].recv[i].socket = node[ChildOf(node[e].recv[i].conn)].peer_addr

\* C14: a recv_loop whose read failed has exited and stays exited, having
\* reported exactly one error and delivered packets for its positive reads
\* only; the step of the failed read adds that one error and no packet, and
\* leaves every other connection's recv_loop and the accept task as they
\* were.
C14_ReadErrorEndsOneLoop ==
    [][ \A c \in Spawned :
          /\ recv_task[c].read_result.kind = "Err" =>
                /\ recv_task[c].pc = "done"
                /\ recv_task'[c] = recv_task[c]
                /\ Cardinality(ReadErrorsOf(c)) = 1
                /\ PayloadsFrom(RecvChannelOf(c), c) = reads[c]
          /\ RecvReadErr(c) =>
                /\ recv_task'[c].pc = "done"
                /\ ErrorChannelOf(c)' = Append(ErrorChannelOf(c), ErrorChannelOf(c)'[Len(ErrorChannelOf(c)')])
                /\ Cardinality(ReadErrorsOf(c)') = 1
                /\ \A e \in DOMAIN node : node'[e].recv = node[e].recv
                /\ \A d \in Conns \ {c} : recv_task'[d] = recv_task[d]
                /\ accept_loop' = accept_loop
      ]_vars

\* C14 witness: one connection's read has failed after it delivered a
\* packet, while another connection's recv_loop is in a read, having
\* delivered too, and the accept task runs.
C14_Witness ==
    \E c \in Spawned, d \in Spawned :
        /\ c # d
        /\ recv_task[c].read_result.kind = "Err" /\ Len(reads[c]) >= 1
        /\ recv_task[d].pc = "read" /\ Len(reads[d]) >= 1
        /\ accept_loop = "running"

\* The payloads the send loop has yet to finish with, oldest first, are
\* the latest payloads passed to send(), in call order.
PendingInCallOrder ==
    LET pending == InFlight \o QueuedPayloads(ClientEntity)
        log == SentLog(ClientEntity)
    IN  /\ Len(pending) <= Len(log)
        /\ SubSeq(log, Len(log) - Len(pending) + 1, Len(log)) = pending

\* C15: a write that fails adds exactly one SendError and nothing else to
\* the error channel, and leaves the send loop at its next receive with the
\* queue untouched; no other step adds a SendError; and whatever writes
\* have failed, the payloads still to be written are the latest sent, in
\* call order.
C15_WriteErrorReportedLoopGoesOn ==
    [][ (ClientEntity \in DOMAIN node) =>
        ( /\ \A k \in 0..(MaxSendLen - 1) : SendLoopWriteErr(k) =>
                /\ node'[ClientEntity].error
                      = Append(node[ClientEntity].error, [kind |-> "SendError"])
                /\ send_task'.pc = "recv"
                /\ node'[ClientEntity].send = node[ClientEntity].send
          /\ (send_task.pc = "write" /\ send_task'.pc # "write") =>
                /\ send_task'.pc = "recv"
                /\ \/ /\ wire' = wire \o send_task.message.bytes
                      /\ node'[ClientEntity].error = node[ClientEntity].error
                   \/ /\ wire' # wire \o send_task.message.bytes
                      /\ Cardinality((ErrorsOfKind(ClientEntity, "SendError"))')
                            = Cardinality(ErrorsOfKind(ClientEntity, "SendError")) + 1
          /\ (ErrorsOfKind(ClientEntity, "SendError"))' # ErrorsOfKind(ClientEntity, "SendError")
                => send_task.pc = "write"
          /\ (PendingInCallOrder)'
          /\ PendingInCallOrder )
      ]_vars

\* C15 witness: one write has failed, and the packet sent last has since
\* been written out whole.
C15_Witness ==
    /\ ClientEntity \in DOMAIN node
    /\ Cardinality(ErrorsOfKind(ClientEntity, "SendError")) = 1
    /\ Len(SentLog(ClientEntity)) >= 2
    /\ send_task.pc = "recv"
    /\ node[ClientEntity].send = <<>>
    /\ wire # Flatten(SentLog(ClientEntity))
    /\ LET last == SentLog(ClientEntity)[Len(SentLog(ClientEntity))]
       IN  /\ Len(wire) >= Len(last)
           /\ Drop(wire, Len(wire) - Len(last)) = last

\* C16: a step that emits Connected events is one run of the adoption: it
\* empties the queue, whatever its length, and emits one event per stream
\* that was queued, in queue order, each for a fresh node with that stream's
\* peer address whose recv_loop has been spawned; the queue holds the
\* accepted streams in accept order, and a run can be taken whenever the
\* queue is not empty and the server has its node.
C16_RunDrainsQueueInOrder ==
    [][ /\ node_events' # node_events =>
            LET q == new_connections
                old == Len(node_events)
            IN  /\ new_connections' = <<>>
                /\ Len(node_events') = old + Len(q)
                /\ SubSeq(node_events', 1, old) = node_events
                /\ \A i \in 1..Len(q) :
                      LET ev == node_events'[old + i]
                      IN  /\ ev.kind = "Connected"
                          /\ ev.entity \in DOMAIN node' \ DOMAIN node
                          /\ node'[ev.entity].peer_addr = PeerAddr(q[i])
                          /\ conn[q[i]] = "queued"
                          /\ conn'[q[i]] = "adopted"
                          /\ recv_task'[q[i]].pc = "check"
                          /\ recv_task'[q[i]].stream = q[i]
        /\ \A c \in Conns :
              conn[c] = "queued" <=> \E i \in 1..Len(new_connections) : new_connections[i] = c
        /\ \A i, j \in 1..Len(new_connections) :
              i < j => new_connections[i] < new_connections[j]
        /\ (new_connections # <<>> /\ ServerEntity \in DOMAIN node /\ ~panicked)
              => ENABLED HandleNewConnection
      ]_vars

\* C16 witness: one run has adopted two streams, and their events are in
\* accept order.
C16_Witness ==
    /\ \E i \in 1..Len(server_log) : server_log[i].op = "adopt" /\ server_log[i].n = 2
    /\ Len(node_events) = 2
    /\ node[node_events[1].entity].peer_addr = PeerAddr(1)
    /\ node[node_events[2].entity].peer_addr = PeerAddr(2)
    /\ new_connections = <<>>

\* C17: the accept task, once running, runs for ever: no step ends it, an
\* accept error and stop() included; whatever the server node's cancel_flag,
\* it accepts as soon as the listener has a connection, and the adoption
\* takes whatever is queued.
C17_AcceptLoopIgnoresStop ==
    [][ /\ accept_loop = "running" => accept_loop' = "running"
        /\ (accept_loop = "running" /\ backlog # <<>> /\ ~panicked) => ENABLED AcceptOk
        /\ (new_connections # <<>> /\ ServerEntity \in DOMAIN node /\ ~panicked)
              => ENABLED HandleNewConnection
        /\ (accept_loop = "running" /\ node[ServerEntity].cancel_flag
              /\ backlog' # backlog /\ Len(backlog') < Len(backlog)) =>
                  \/ /\ new_connections' = Append(new_connections, Head(backlog))
                     /\ conn'[Head(backlog)] = "queued"
                  \/ /\ new_connections' = new_connections
                     /\ conn'[Head(backlog)] = "refused"
      ]_vars

\* C17 witness: the server node was stopped; after that a connection was
\* refused by an accept error, the next one was accepted, and it was
\* adopted, all with the cancel_flag set.
C17_Witness ==
    /\ conn[1] = "refused"
    /\ conn[2] = "adopted"
    /\ recv_task[2].pc = "check"
    /\ Len(node_events) = 1
    /\ node[node_events[1].entity].peer_addr = PeerAddr(2)
    /\ node[ServerEntity].cancel_flag
    /\ \E i, j \in 1..Len(server_log) :
          /\ i < j
          /\ server_log[i] = [op |-> "accept", n |-> 2, stopped |-> TRUE]
          /\ server_log[j] = [op |-> "adopt", n |-> 1, stopped |-> TRUE]

\* C18 (as claimed): once a receive of the send loop has failed with the
\* closed signal, the loop makes no other receive attempt: it ends, with
\* the cancel_flag set or clear.
C18_ClosedChannelEndsSendLoop ==
    [][ (send_task.pc # "none" /\ send_task.recv_result = "Closed")
            => send_task'.pc # "recv" ]_vars

\* C19 (as claimed): the recv_loop of a connection observes the cancel_flag
\* of the node spawned for that connection and no other: at its check it
\* ends exactly when that node's flag is set, whatever the server node's.
C19_LoopObservesOwnChildFlag ==
    [][ \A c \in Spawned :
          (recv_task[c].pc = "check" /\ recv_task'[c].pc # "check") =>
              (recv_task'[c].pc = "done" <=> node[ChildOf(c)].cancel_flag)
      ]_vars

\* C20 (as claimed): a node whose background task has been spawned, and
\* which stop() has not been called on since, has running = TRUE.
C20_RunningWhileTaskSpawned ==
    /\ (ClientEntity \in DOMAIN node /\ send_task.pc # "none"
            /\ ~node[ClientEntity].cancel_flag)
          => node[ClientEntity].running
    /\ (ServerEntity \in DOMAIN node /\ accept_loop = "running"
            /\ ~node[ServerEntity].cancel_flag)
          => node[ServerEntity].running

====
